---- MODULE Spec2Model ----
(***************************************************************************)
(* A model of src/util.ts of ts-html-plugin: the walker over a source      *)
(* file (recursiveDiagnoseJsxElements), the per-element diagnosis          *)
(* (diagnoseJsxElement), the analysis of a rendered expression             *)
(* (diagnoseExpression) and the type oracle (isSafeAttribute).             *)
(*                                                                         *)
(* Source text is a sequence of one-character strings; offsets are         *)
(* 0-based as in TypeScript, so getText(n) is the slice (start, end] of    *)
(* the 1-based sequence.                                                   *)
(***************************************************************************)
EXTENDS Integers, Sequences, FiniteSets, TLC

VARIABLES
    source,       \* the text of the source file under analysis
    root,         \* the node handed to recursiveDiagnoseJsxElements
    stack,        \* the call stack of loopSourceNodes: frames [node, next]
    diagnostics,  \* the caller-owned Diagnostic[] every call pushes to
    walked,       \* history: the spans the walker handed to diagnoseJsxElement
    otype,        \* oracle run: the type handed to isSafeAttribute
    oexpr,        \* oracle run: the expression handed to isSafeAttribute
    overdict      \* oracle run: "none" before the call, then "safe"/"unsafe"

vars == <<source, root, stack, diagnostics, walked, otype, oexpr, overdict>>

RECURSIVE FullText(_), FullTextSeq(_), Place(_, _), PlaceSeq(_, _)
RECURSIVE isSafeAttribute(_, _)
RECURSIVE diagnoseJsxElement(_, _), diagnoseExpression(_, _, _)
RECURSIVE safeModeChildren(_, _, _, _), lookForExpressions(_, _, _)
RECURSIVE diagnoseJsxTags(_, _, _)
RECURSIVE Descendants(_), Exprs(_)
RECURSIVE LatticeVerdict(_, _), Replay(_, _, _)

(***************************************************************************)
(* Bounds of the model.                                                    *)
(***************************************************************************)
\* the longest children list of the outer element of a document
MaxChildren == 2
\* the most whitespace characters in front of an attribute
MaxTrivia == 2
\* the nesting depth of the expressions put into an expression container
MaxExprDepth == 1
\* the most member types of a union type handed to the oracle
MaxUnion == 2

(***************************************************************************)
(* Characters and strings.                                                 *)
(***************************************************************************)
UpperLetters == <<"A","B","C","D","E","F","G","H","I","J","K","L","M",
                  "N","O","P","Q","R","S","T","U","V","W","X","Y","Z">>
LowerLetters == <<"a","b","c","d","e","f","g","h","i","j","k","l","m",
                  "n","o","p","q","r","s","t","u","v","w","x","y","z">>
Digits == {"0","1","2","3","4","5","6","7","8","9"}

IsUpper(c) == \E i \in DOMAIN UpperLetters : UpperLetters[i] = c
IsLower(c) == \E i \in DOMAIN LowerLetters : LowerLetters[i] = c
\* the regular expression class \w
IsWordChar(c) == IsUpper(c) \/ IsLower(c) \/ c \in Digits \/ c = "_"
\* what the i flag of a regular expression compares
ToLower(c) ==
    IF IsUpper(c)
    THEN LowerLetters[CHOOSE i \in DOMAIN UpperLetters : UpperLetters[i] = c]
    ELSE c

\* String.prototype.startsWith
startsWith(text, prefix) ==
    /\ Len(text) >= Len(prefix)
    /\ SubSeq(text, 1, Len(prefix)) = prefix

S_safe == <<"s","a","f","e">>
S_unsafe == <<"u","n","s","a","f","e">>
S_script == <<"s","c","r","i","p","t">>
S_escapehtml == <<"e","s","c","a","p","e","h","t","m","l">>

\* const UPPERCASE = /[A-Z]/  (text.match(UPPERCASE) is truthy)
UPPERCASE(text) == \E i \in DOMAIN text : IsUpper(text[i])

\* const ESCAPE_HTML_REGEX = /^(\w+\.)?escapeHtml/i
ESCAPE_HTML_REGEX(text) ==
    LET lower == [i \in DOMAIN text |-> ToLower(text[i])]
        nameAt(k) == startsWith(SubSeq(lower, k, Len(lower)), S_escapehtml)
    IN  \/ nameAt(1)
        \/ \E n \in 1..Len(text) :
              /\ n < Len(text)
              /\ \A i \in 1..n : IsWordChar(text[i])
              /\ text[n + 1] = "."
              /\ nameAt(n + 2)

(***************************************************************************)
(* Types, as the TypeChecker hands them out (ts.Type): flags, the alias    *)
(* symbol (a sequence of at most one [escapedName, parent]), the members   *)
(* of a union, checker.isArrayType, symbol.escapedName ("" when there is   *)
(* no symbol) and resolvedTypeArguments.  defined = FALSE is `undefined`.  *)
(***************************************************************************)
PlainType(flags) ==
    [defined |-> TRUE, flags |-> flags, aliasSymbol |-> <<>>, types |-> <<>>,
     isArray |-> FALSE, symbol |-> "", resolvedTypeArguments |-> <<>>]

UndefinedType == [PlainType({}) EXCEPT !.defined = FALSE]
TAny == PlainType({"Any"})
TString == PlainType({"String"})
TNumber == PlainType({"Number"})
TBoolean == PlainType({"Boolean"})
TObject == PlainType({"Object"})
UnionOf(members) == [PlainType({"Union"}) EXCEPT !.types = members]
ArrayOf(args) ==
    [PlainType({"Object"}) EXCEPT !.isArray = TRUE, !.symbol = "Array",
                                  !.resolvedTypeArguments = args]
PromiseOf(args) ==
    [PlainType({"Object"}) EXCEPT !.symbol = "Promise",
                                  !.resolvedTypeArguments = args]
AliasOf(name, parent, type) ==
    [type EXCEPT !.aliasSymbol = <<[escapedName |-> name, parent |-> parent]>>]
\* JSX.Element of the host framework: string | Promise<string>
TJsxElement == AliasOf("Element", "JSX", UnionOf(<<TString, PromiseOf(<<TString>>)>>))

(***************************************************************************)
(* Syntax, before it is laid out in a file.                                *)
(***************************************************************************)
Identifier(name, type) == [kind |-> "Identifier", name |-> name, type |-> type]
CallExpression(callee, argument, type) ==
    [kind |-> "CallExpression", callee |-> callee, argument |-> argument,
     type |-> type]
ParenthesizedExpression(expression, type) ==
    [kind |-> "ParenthesizedExpression", expression |-> expression, type |-> type]
BinaryExpression(left, operatorToken, right, type) ==
    [kind |-> "BinaryExpression", left |-> left, operatorToken |-> operatorToken,
     right |-> right, type |-> type]
ConditionalExpression(condition, whenTrue, whenFalse, type) ==
    [kind |-> "ConditionalExpression", condition |-> condition,
     whenTrue |-> whenTrue, whenFalse |-> whenFalse, type |-> type]
ArrowFunction(body) == [kind |-> "ArrowFunction", body |-> body, type |-> TObject]
JsxText(text) == [kind |-> "JsxText", text |-> text]
\* expression: a sequence of at most one expression ({} holds none)
JsxExpression(expression) == [kind |-> "JsxExpression", expression |-> expression]
JsxAttribute(trivia, text) ==
    [kind |-> "JsxAttribute", trivia |-> trivia, text |-> text]
JsxElement(tagName, attributes, children) ==
    [kind |-> "JsxElement", tagName |-> tagName, attributes |-> attributes,
     children |-> children, type |-> TJsxElement]
JsxFragment(children) ==
    [kind |-> "JsxFragment", children |-> children, type |-> TJsxElement]
ExpressionStatement(expression) ==
    [kind |-> "ExpressionStatement", expression |-> expression]
SourceFile(statements) == [kind |-> "SourceFile", statements |-> statements]

BooleanOperators ==
    {"EqualsEqualsEqualsToken", "EqualsEqualsToken",
     "ExclamationEqualsEqualsToken", "ExclamationEqualsToken",
     "GreaterThanToken", "GreaterThanEqualsToken", "LessThanEqualsToken",
     "LessThanToken", "InstanceOfKeyword", "InKeyword"}
OtherOperators ==
    {"AmpersandAmpersandToken", "BarBarToken", "QuestionQuestionToken",
     "PlusToken"}

OperatorText(kind) ==
    CASE kind = "EqualsEqualsEqualsToken" -> <<"=","=","=">>
      [] kind = "EqualsEqualsToken" -> <<"=","=">>
      [] kind = "ExclamationEqualsEqualsToken" -> <<"!","=","=">>
      [] kind = "ExclamationEqualsToken" -> <<"!","=">>
      [] kind = "GreaterThanToken" -> <<">">>
      [] kind = "GreaterThanEqualsToken" -> <<">","=">>
      [] kind = "LessThanEqualsToken" -> <<"<","=">>
      [] kind = "LessThanToken" -> <<"<">>
      [] kind = "InstanceOfKeyword" -> <<"i","n","s","t","a","n","c","e","o","f">>
      [] kind = "InKeyword" -> <<"i","n">>
      [] kind = "AmpersandAmpersandToken" -> <<"&","&">>
      [] kind = "BarBarToken" -> <<"|","|">>
      [] kind = "QuestionQuestionToken" -> <<"?","?">>
      [] kind = "PlusToken" -> <<"+">>

Spaces(n) == [i \in 1..n |-> " "]

(***************************************************************************)
(* The text of a piece of syntax, and the syntax laid out at an offset:    *)
(* every node gets start (getStart()) and end; an attribute also gets pos, *)
(* the offset where its leading whitespace begins.                         *)
(***************************************************************************)
FullTextSeq(nodes) ==
    IF nodes = <<>> THEN <<>>
    ELSE FullText(Head(nodes)) \o FullTextSeq(Tail(nodes))

FullText(n) ==
    CASE n.kind = "Identifier" -> n.name
      [] n.kind = "CallExpression" ->
            n.callee \o <<"(">> \o FullText(n.argument) \o <<")">>
      [] n.kind = "ParenthesizedExpression" ->
            <<"(">> \o FullText(n.expression) \o <<")">>
      [] n.kind = "BinaryExpression" ->
            FullText(n.left) \o <<" ">> \o OperatorText(n.operatorToken)
                \o <<" ">> \o FullText(n.right)
      [] n.kind = "ConditionalExpression" ->
            FullText(n.condition) \o <<" ","?"," ">> \o FullText(n.whenTrue)
                \o <<" ",":"," ">> \o FullText(n.whenFalse)
      [] n.kind = "ArrowFunction" ->
            <<"(",")"," ","=",">"," ">> \o FullText(n.body)
      [] n.kind = "JsxText" -> n.text
      [] n.kind = "JsxExpression" ->
            <<"{">> \o FullTextSeq(n.expression) \o <<"}">>
      [] n.kind = "JsxAttribute" -> Spaces(n.trivia) \o n.text
      [] n.kind = "JsxElement" ->
            <<"<">> \o n.tagName \o FullTextSeq(n.attributes) \o <<">">>
                \o FullTextSeq(n.children) \o <<"<","/">> \o n.tagName \o <<">">>
      [] n.kind = "JsxFragment" ->
            <<"<",">">> \o FullTextSeq(n.children) \o <<"<","/",">">>
      [] n.kind = "ExpressionStatement" -> FullText(n.expression) \o <<";">>
      [] n.kind = "SourceFile" -> FullTextSeq(n.statements)

EndOfSeq(placed, at) == IF placed = <<>> THEN at ELSE placed[Len(placed)].end

PlaceSeq(nodes, at) ==
    IF nodes = <<>> THEN <<>>
    ELSE LET first == Place(Head(nodes), at)
         IN  <<first>> \o PlaceSeq(Tail(nodes), first.end)

Place(n, at) ==
    CASE n.kind = "Identifier" ->
            [kind |-> n.kind, type |-> n.type, start |-> at,
             end |-> at + Len(n.name)]
      [] n.kind = "CallExpression" ->
            LET argument == Place(n.argument, at + Len(n.callee) + 1)
            IN  [kind |-> n.kind, type |-> n.type, argument |-> argument,
                 start |-> at, end |-> argument.end + 1]
      [] n.kind = "ParenthesizedExpression" ->
            LET expression == Place(n.expression, at + 1)
            IN  [kind |-> n.kind, type |-> n.type, expression |-> expression,
                 start |-> at, end |-> expression.end + 1]
      [] n.kind = "BinaryExpression" ->
            LET left == Place(n.left, at)
                right == Place(n.right,
                               left.end + Len(OperatorText(n.operatorToken)) + 2)
            IN  [kind |-> n.kind, type |-> n.type, left |-> left,
                 operatorToken |-> n.operatorToken, right |-> right,
                 start |-> at, end |-> right.end]
      [] n.kind = "ConditionalExpression" ->
            LET condition == Place(n.condition, at)
                whenTrue == Place(n.whenTrue, condition.end + 3)
                whenFalse == Place(n.whenFalse, whenTrue.end + 3)
            IN  [kind |-> n.kind, type |-> n.type, condition |-> condition,
                 whenTrue |-> whenTrue, whenFalse |-> whenFalse,
                 start |-> at, end |-> whenFalse.end]
      [] n.kind = "ArrowFunction" ->
            LET body == Place(n.body, at + 6)
            IN  [kind |-> n.kind, type |-> n.type, body |-> body,
                 start |-> at, end |-> body.end]
      [] n.kind = "JsxText" ->
            [kind |-> n.kind, start |-> at, end |-> at + Len(n.text)]
      [] n.kind = "JsxExpression" ->
            LET expression == PlaceSeq(n.expression, at + 1)
            IN  [kind |-> n.kind, expression |-> expression, start |-> at,
                 end |-> EndOfSeq(expression, at + 1) + 1]
      [] n.kind = "JsxAttribute" ->
            [kind |-> n.kind, pos |-> at, start |-> at + n.trivia,
             end |-> at + n.trivia + Len(n.text)]
      [] n.kind = "JsxElement" ->
            LET nameEnd == at + 1 + Len(n.tagName)
                attributes == PlaceSeq(n.attributes, nameEnd)
                openEnd == EndOfSeq(attributes, nameEnd) + 1
                children == PlaceSeq(n.children, openEnd)
            IN  [kind |-> n.kind, type |-> n.type,
                 tagName |-> [kind |-> "Identifier", start |-> at + 1,
                              end |-> nameEnd],
                 attributes |-> attributes, children |-> children,
                 start |-> at,
                 end |-> EndOfSeq(children, openEnd) + Len(n.tagName) + 3]
      [] n.kind = "JsxFragment" ->
            LET children == PlaceSeq(n.children, at + 2)
            IN  [kind |-> n.kind, type |-> n.type, children |-> children,
                 start |-> at, end |-> EndOfSeq(children, at + 2) + 3]
      [] n.kind = "ExpressionStatement" ->
            LET expression == Place(n.expression, at)
            IN  [kind |-> n.kind, expression |-> expression, start |-> at,
                 end |-> expression.end + 1]
      [] n.kind = "SourceFile" ->
            LET statements == PlaceSeq(n.statements, at)
            IN  [kind |-> n.kind, statements |-> statements, start |-> at,
                 end |-> EndOfSeq(statements, at)]

(***************************************************************************)
(* The accessors of ts.Node the program uses.                              *)
(***************************************************************************)
\* node.getText(): the file's text from getStart() to end
getText(node) == SubSeq(source, node.start + 1, node.end)
\* node.getWidth()
getWidth(node) == node.end - node.start
\* node.getStart()
getStart(node) == node.start
\* node.getSourceFile(): one file is analysed at a time
FileName == "file.tsx"
getSourceFile(node) == FileName

isJsxElement(node) == node.kind = "JsxElement"
isJsxFragment(node) == node.kind = "JsxFragment"
isJsxExpression(node) == node.kind = "JsxExpression"
isIdentifier(node) == node.kind = "Identifier"
isCallExpression(node) == node.kind = "CallExpression"
isParenthesizedExpression(node) == node.kind = "ParenthesizedExpression"
isBinaryExpression(node) == node.kind = "BinaryExpression"
isConditionalExpression(node) == node.kind = "ConditionalExpression"

\* ts.forEachChild(node, cb): the child nodes cb is called with, in order.
\* The opening element is flattened to its attributes; names and tokens have
\* no children and are no JSX, so the callback does nothing for them.
forEachChild(node) ==
    CASE node.kind = "SourceFile" -> node.statements
      [] node.kind = "ExpressionStatement" -> <<node.expression>>
      [] node.kind = "JsxElement" -> node.attributes \o node.children
      [] node.kind = "JsxFragment" -> node.children
      [] node.kind = "JsxExpression" -> node.expression
      [] node.kind = "ParenthesizedExpression" -> <<node.expression>>
      [] node.kind = "BinaryExpression" -> <<node.left, node.right>>
      [] node.kind = "ConditionalExpression" ->
            <<node.condition, node.whenTrue, node.whenFalse>>
      [] node.kind = "ArrowFunction" -> <<node.body>>
      [] node.kind = "CallExpression" -> <<node.argument>>
      [] OTHER -> <<>>

Token == [kind |-> "Token"]
\* node.getChildren(): tokens included, a call's arguments inside a SyntaxList
getChildren(node) ==
    CASE node.kind = "ParenthesizedExpression" -> <<Token, node.expression, Token>>
      [] node.kind = "ArrowFunction" ->
            <<Token, [kind |-> "SyntaxList"], Token, Token, node.body>>
      [] node.kind = "CallExpression" ->
            <<[kind |-> "Identifier"], Token, [kind |-> "SyntaxList"], Token>>
      [] node.kind = "BinaryExpression" -> <<node.left, Token, node.right>>
      [] node.kind = "ConditionalExpression" ->
            <<node.condition, Token, node.whenTrue, Token, node.whenFalse>>
      [] OTHER -> <<>>

(***************************************************************************)
(* src/util.ts                                                             *)
(***************************************************************************)
\* isJsx that knows elements only
isJsx_elementOnly(node) == isJsxElement(node)

\* isJsx(ts, node)
isJsx(node) == isJsxElement(node) \/ isJsxFragment(node)

\* typeChecker.getTypeAtLocation(node): the type the checker resolved
getTypeAtLocation(node) == node.type

\* diagnostic(node, error, category); code stands for Errors[error]
diagnostic(node, error, category) ==
    [category |-> category,
     code |-> error,
     file |-> getSourceFile(node),
     length |-> getWidth(node),
     start |-> getStart(node)]

\* getSafeAttribute(element): a sequence of at most one attribute
getSafeAttribute(element) ==
    LET found == {i \in DOMAIN element.attributes :
                     getText(element.attributes[i]) = S_safe}
    IN  IF found = {} THEN <<>>
        ELSE <<element.attributes[CHOOSE i \in found : \A j \in found : i <= j]>>

\* type.resolvedTypeArguments?.[0]
firstTypeArgument(type) ==
    IF type.resolvedTypeArguments = <<>> THEN UndefinedType
    ELSE type.resolvedTypeArguments[1]

\* the test on the alias symbol that allows JSX.Element
isJsxElementAlias(type, expression) ==
    /\ type.aliasSymbol # <<>>
    /\ type.aliasSymbol[1].escapedName = "Element"
    /\ type.aliasSymbol[1].parent = "JSX"
    /\ isCallExpression(expression)

\* the test on the alias symbol that allows Html.Children
isHtmlChildrenAlias(type) ==
    /\ type.aliasSymbol # <<>>
    /\ type.aliasSymbol[1].escapedName = "Children"
    /\ type.aliasSymbol[1].parent = "Html"

\* the test on the text of the expression that ends isSafeAttribute
textIsSafe(expression) ==
    LET text == getText(expression)
    IN  startsWith(text, S_safe) \/ ESCAPE_HTML_REGEX(text)

\* isSafeAttribute with the members of a union tested by some, not every
isSafeAttribute_some(type, expression) ==
    IF ~type.defined THEN TRUE
    ELSE IF "Any" \in type.flags THEN FALSE
    ELSE IF isJsxElementAlias(type, expression) THEN TRUE
    ELSE IF isHtmlChildrenAlias(type) THEN TRUE
    ELSE IF "Union" \in type.flags
    THEN \E i \in DOMAIN type.types : isSafeAttribute(type.types[i], expression)
    ELSE IF type.isArray \/ type.symbol = "Promise"
    THEN isSafeAttribute(firstTypeArgument(type), expression)
    ELSE IF "String" \notin type.flags /\ "Object" \notin type.flags THEN TRUE
    ELSE textIsSafe(expression)

\* isSafeAttribute(ts, type, expression, checker)
isSafeAttribute(type, expression) ==
    IF ~type.defined THEN TRUE
    ELSE IF "Any" \in type.flags THEN FALSE
    ELSE IF isJsxElementAlias(type, expression) THEN TRUE
    ELSE IF isHtmlChildrenAlias(type) THEN TRUE
    ELSE IF "Union" \in type.flags
    THEN \A i \in DOMAIN type.types : isSafeAttribute(type.types[i], expression)
    ELSE IF type.isArray \/ type.symbol = "Promise"
    THEN isSafeAttribute(firstTypeArgument(type), expression)
    ELSE IF "String" \notin type.flags /\ "Object" \notin type.flags THEN TRUE
    ELSE textIsSafe(expression)

\* the switch on node.operatorToken.kind: the operators that give a boolean
resultsInBoolean(node) == node.operatorToken \in BooleanOperators

\* the left operand in place of the right
renderedOperand_left(node) == node.left

\* the operand of a binary expression diagnoseExpression goes into
renderedOperand(node) == node.right

\* the condition in place of whenTrue
renderedBranches_condition(node) == <<node.condition, node.whenFalse>>

\* the parts of a conditional expression diagnoseExpression goes into, in order
renderedBranches(node) == <<node.whenTrue, node.whenFalse>>

\* the error diagnoseExpression pushes
xssError(node, isComponent) ==
    IF isComponent \/ isJsxFragment(node) THEN "ComponentXss" ELSE "Xss"

\* the loop over node.getChildren() in diagnoseExpression, from the i-th on
diagnoseJsxTags(tags, i, diags) ==
    IF i > Len(tags) THEN diags
    ELSE IF ~isJsx(tags[i]) THEN diagnoseJsxTags(tags, i + 1, diags)
    ELSE diagnoseJsxTags(tags, i + 1, diagnoseJsxElement(tags[i], diags))

\* diagnoseExpression(ts, node, typeChecker, diagnostics, isComponent)
diagnoseExpression(given, diags, isComponent) ==
    LET node == IF isParenthesizedExpression(given) THEN given.expression
                ELSE given
    IN  IF isJsx(node) THEN diags
        ELSE IF isBinaryExpression(node)
        THEN IF resultsInBoolean(node) THEN diags
             ELSE diagnoseExpression(renderedOperand(node), diags, isComponent)
        ELSE IF isConditionalExpression(node)
        THEN diagnoseExpression(renderedBranches(node)[2],
                 diagnoseExpression(renderedBranches(node)[1], diags, isComponent),
                 isComponent)
        ELSE IF isSafeAttribute(getTypeAtLocation(node), node) THEN diags
        ELSE IF /\ ~isIdentifier(node)
                /\ \E i \in DOMAIN getChildren(node) : isJsx(getChildren(node)[i])
        THEN diagnoseJsxTags(getChildren(node), 1, diags)
        ELSE Append(diags, diagnostic(node, xssError(node, isComponent), "Error"))

\* the children test without the empty element
emptyOrOnlyText_oneText(node) ==
    Len(node.children) = 1 /\ node.children[1].kind = "JsxText"

\* the children test of the safe mode: an empty element, or only text
emptyOrOnlyText(node) ==
    \/ Len(node.children) = 0
    \/ Len(node.children) = 1 /\ node.children[1].kind = "JsxText"

\* the child test without the nested element
isDoubleEscape_callOnly(exp) ==
    /\ isJsxExpression(exp)
    /\ exp.expression # <<>>
    /\ ESCAPE_HTML_REGEX(getText(exp.expression[1]))

\* the child test of the safe mode that gives DoubleEscape
isDoubleEscape(exp) ==
    \/ isJsxElement(exp)
    \/ /\ isJsxExpression(exp)
       /\ exp.expression # <<>>
       /\ ESCAPE_HTML_REGEX(getText(exp.expression[1]))

\* "Avoids double warnings": diagnostics.some(...)
alreadyDiagnosed(diags, safeAttribute, file) ==
    \E i \in DOMAIN diags :
        diags[i].start = safeAttribute.pos + 1 /\ diags[i].file = file

\* the child test of the safe mode that gives UnusedSafe
isUnusedSafe(exp, diags, safeAttribute, file) ==
    /\ isJsxExpression(exp)
    /\ exp.expression # <<>>
    /\ isSafeAttribute(getTypeAtLocation(exp.expression[1]), exp.expression[1])
    /\ ~startsWith(getText(exp.expression[1]), S_unsafe)
    /\ ~alreadyDiagnosed(diags, safeAttribute, file)

\* the loop over node.children of the safe mode, from the i-th child on
safeModeChildren(node, safeAttribute, i, diags) ==
    IF i > Len(node.children) THEN diags
    ELSE IF isDoubleEscape(node.children[i])
    THEN safeModeChildren(node, safeAttribute, i + 1,
             Append(diags, diagnostic(safeAttribute, "DoubleEscape", "Error")))
    ELSE IF isUnusedSafe(node.children[i], diags, safeAttribute,
                         getSourceFile(node))
    THEN safeModeChildren(node, safeAttribute, i + 1,
             Append(diags, diagnostic(safeAttribute, "UnusedSafe", "Warning")))
    ELSE safeModeChildren(node, safeAttribute, i + 1, diags)

\* the isComponent argument diagnoseJsxElement passes to diagnoseExpression
isComponentTag(node) ==
    isJsxElement(node) /\ UPPERCASE(getText(node.tagName))

\* "Look for expressions": the loop over node.children, from the i-th child on
lookForExpressions(node, i, diags) ==
    IF i > Len(node.children) THEN diags
    ELSE IF ~isJsxExpression(node.children[i])
    THEN lookForExpressions(node, i + 1, diags)
    ELSE IF node.children[i].expression = <<>>
    THEN lookForExpressions(node, i + 1, diags)
    ELSE lookForExpressions(node, i + 1,
             diagnoseExpression(node.children[i].expression[1], diags,
                                isComponentTag(node)))

\* "Script tags should be ignored"
isScriptTag(node) == getText(node.tagName) = S_script

\* diagnoseJsxElement(ts, node, typeChecker, diagnostics)
diagnoseJsxElement(node, diags) ==
    IF isJsxElement(node) /\ isScriptTag(node) THEN diags
    ELSE IF isJsxElement(node) /\ getSafeAttribute(node) # <<>>
    THEN LET safeAttribute == getSafeAttribute(node)[1]
         IN  IF emptyOrOnlyText(node)
             THEN Append(diags, diagnostic(safeAttribute, "UnusedSafe", "Warning"))
             ELSE safeModeChildren(node, safeAttribute, 1, diags)
    ELSE lookForExpressions(node, 1, diags)

(***************************************************************************)
(* The documents of the model.                                             *)
(***************************************************************************)
S_x == <<"x">>
S_n == <<"n">>
S_safeX == <<"s","a","f","e","X">>
S_unsafeN == <<"u","n","s","a","f","e","N">>
S_escapeHtml == <<"e","s","c","a","p","e","H","t","m","l">>
S_hi == <<"h","i">>
S_id == <<"i","d">>
S_b == <<"b">>
S_div == <<"d","i","v">>
S_Card == <<"C","a","r","d">>
S_clipPath == <<"c","l","i","p","P","a","t","h">>

\* x: string, n: number, safeX: string, unsafeN: number, escapeHtml(x): string
IdX == Identifier(S_x, TString)
IdN == Identifier(S_n, TNumber)
IdSafe == Identifier(S_safeX, TString)
IdUnsafe == Identifier(S_unsafeN, TNumber)
CallEscape == CallExpression(S_escapeHtml, IdX, TString)

\* <b>{x}</b>, <b safe>hi</b>, <>{x}</>, <script>{x}</script>
InnerB == JsxElement(S_b, <<>>, <<JsxExpression(<<IdX>>)>>)
InnerSafe == JsxElement(S_b, <<JsxAttribute(1, S_safe)>>, <<JsxText(S_hi)>>)
InnerFragment == JsxFragment(<<JsxExpression(<<IdX>>)>>)

\* the type the checker gives a binary or a conditional expression
BinaryType(op, left, right) ==
    IF op \in BooleanOperators THEN TBoolean
    ELSE IF op = "PlusToken"
    THEN IF TString \in {left.type, right.type} THEN TString ELSE TNumber
    ELSE IF left.type = right.type THEN right.type
    ELSE UnionOf(<<left.type, right.type>>)
ConditionalType(whenTrue, whenFalse) ==
    IF whenTrue.type = whenFalse.type THEN whenTrue.type
    ELSE UnionOf(<<whenTrue.type, whenFalse.type>>)

Atoms == {IdX, IdN, IdSafe, CallEscape}
Operands == {IdX, IdN}
Conditions == {IdX, ParenthesizedExpression(InnerB, TJsxElement)}

\* the expressions of nesting depth at most d
Exprs(d) ==
    IF d = 0 THEN Atoms
    ELSE LET inner == Exprs(d - 1)
         IN  inner
             \cup {ParenthesizedExpression(e, e.type) : e \in inner \cup {InnerB}}
             \cup {BinaryExpression(IdX, op, r, BinaryType(op, IdX, r)) :
                      op \in BooleanOperators \cup OtherOperators, r \in inner}
             \cup {ConditionalExpression(c, b[1], b[2], ConditionalType(b[1], b[2])) :
                      c \in Conditions,
                      b \in (inner \X Operands) \cup (Operands \X inner)}
             \cup {ArrowFunction(InnerB)}

\* the sequences over S of length at most n
SeqsUpTo(S, n) == UNION {[1..k -> S] : k \in 0..n}

\* <tag>{e}</tag>
ExprDoc(tag, e) ==
    SourceFile(<<ExpressionStatement(
        JsxElement(tag, <<>>, <<JsxExpression(<<e>>)>>))>>)

\* <tag safe>...</tag>, with some whitespace before the marker
SafeAttributes ==
    {<<JsxAttribute(k, S_safe)>> : k \in 1..MaxTrivia}
        \cup {<<JsxAttribute(1, S_id), JsxAttribute(1, S_safe)>>}
SafeChildren ==
    {JsxText(S_hi), JsxExpression(<<>>), JsxExpression(<<IdN>>),
     JsxExpression(<<IdX>>), JsxExpression(<<IdSafe>>),
     JsxExpression(<<IdUnsafe>>), JsxExpression(<<CallEscape>>),
     JsxElement(S_b, <<>>, <<JsxText(S_hi)>>)}
SafeDoc(tag, attributes, children) ==
    SourceFile(<<ExpressionStatement(JsxElement(tag, attributes, children))>>)

\* nested markup, as a statement of a source file or handed to the walker itself
NestedChildren ==
    {JsxText(S_hi), JsxExpression(<<IdX>>), InnerB, InnerSafe, InnerFragment,
     JsxExpression(<<ArrowFunction(InnerB)>>)}
NestedDoc(asStatement, tag, attributes, children) ==
    IF asStatement
    THEN SourceFile(<<ExpressionStatement(JsxElement(tag, attributes, children))>>)
    ELSE JsxElement(tag, attributes, children)

\* every node below a node, as ts.forEachChild reaches them
Descendants(node) ==
    LET children == forEachChild(node)
    IN  UNION {{children[i]} \cup Descendants(children[i]) : i \in DOMAIN children}

Nodes == {root} \cup Descendants(root)

(***************************************************************************)
(* recursiveDiagnoseJsxElements(ts, node, typeChecker, original), one call *)
(* or return of loopSourceNodes at a time.  The bottom frame is the call   *)
(* of recursiveDiagnoseJsxElements itself.                                 *)
(***************************************************************************)
Span(node) == [start |-> node.start, end |-> node.end]

\* the walk of a document starts
Start(d) ==
    /\ source = FullText(d)
    /\ root = Place(d, 0)
    /\ stack = <<[node |-> root, next |-> 1]>>
    /\ diagnostics = <<>>
    /\ walked = <<>>
    /\ otype = UndefinedType
    /\ oexpr = Place(IdX, 0)
    /\ overdict = "none"

Init ==
    \/ \E tag \in {S_div, S_Card}, e \in Exprs(MaxExprDepth) :
          Start(ExprDoc(tag, e))
    \/ \E tag \in {S_div, S_Card}, attributes \in SafeAttributes,
          children \in SeqsUpTo(SafeChildren, MaxChildren) :
          Start(SafeDoc(tag, attributes, children))
    \/ \E asStatement \in BOOLEAN,
          tag \in {S_div, S_Card, S_clipPath, S_script},
          attributes \in {<<>>, <<JsxAttribute(1, S_safe)>>},
          children \in SeqsUpTo(NestedChildren, MaxChildren) :
          /\ asStatement \/ tag = S_div
          /\ Start(NestedDoc(asStatement, tag, attributes, children))

Top == stack[Len(stack)]
Pop == SubSeq(stack, 1, Len(stack) - 1)
Exhausted == Top.next > Len(forEachChild(Top.node))

\* ts.forEachChild calls loopSourceNodes with the next child
Descend ==
    /\ stack # <<>>
    /\ ~Exhausted
    /\ stack' = Append([stack EXCEPT ![Len(stack)].next = @ + 1],
                       [node |-> forEachChild(Top.node)[Top.next], next |-> 1])
    /\ UNCHANGED <<source, root, diagnostics, walked, otype, oexpr, overdict>>

\* loopSourceNodes is through with the children of a JSX node: diagnose it
VisitJsx ==
    /\ Len(stack) > 1
    /\ Exhausted
    /\ isJsx(Top.node)
    /\ diagnostics' = diagnoseJsxElement(Top.node, diagnostics)
    /\ walked' = Append(walked, Span(Top.node))
    /\ stack' = Pop
    /\ UNCHANGED <<source, root, otype, oexpr, overdict>>

\* loopSourceNodes is through with the children of any other node
VisitOther ==
    /\ Len(stack) > 1
    /\ Exhausted
    /\ ~isJsx(Top.node)
    /\ stack' = Pop
    /\ UNCHANGED <<source, root, diagnostics, walked, otype, oexpr, overdict>>

\* recursiveDiagnoseJsxElements returns; it has not tested its own node
Return ==
    /\ Len(stack) = 1
    /\ Exhausted
    /\ stack' = <<>>
    /\ UNCHANGED <<source, root, diagnostics, walked, otype, oexpr, overdict>>

Next == Descend \/ VisitJsx \/ VisitOther \/ Return

Spec == Init /\ [][Next]_vars

Done == stack = <<>>

(***************************************************************************)
(* One call of isSafeAttribute on a type and an expression of its own.     *)
(***************************************************************************)
S_f == <<"f">>
S_qualified == <<"h",".","E","s","c","a","p","e","H","T","M","L">>

OracleExprs ==
    {IdX, IdSafe, CallEscape, CallExpression(S_f, IdX, TString),
     CallExpression(S_qualified, IdX, TString)}

\* the types that are no union and take no type argument
OracleBaseTypes ==
    {TAny, TString, TNumber, TObject,
     AliasOf("Element", "JSX", TString), AliasOf("Children", "Html", TString),
     AliasOf("Element", "Html", TString)}
OracleWrappedTypes ==
    {ArrayOf(<<>>), PromiseOf(<<>>)}
        \cup {ArrayOf(<<t>>) : t \in OracleBaseTypes}
        \cup {PromiseOf(<<t>>) : t \in OracleBaseTypes}
OracleMembers ==
    OracleBaseTypes \cup {ArrayOf(<<>>), ArrayOf(<<TString>>), PromiseOf(<<TNumber>>)}
OracleUnions ==
    {UnionOf(m) : m \in SeqsUpTo(OracleMembers, MaxUnion) \ {<<>>}}
OracleTypes ==
    {UndefinedType} \cup OracleBaseTypes \cup OracleWrappedTypes \cup OracleUnions
        \cup {ArrayOf(<<u>>) : u \in OracleUnions}
        \cup {PromiseOf(<<u>>) : u \in OracleUnions}
        \cup {AliasOf("Element", "JSX", u) : u \in OracleUnions}

InitOracle ==
    /\ \E t \in OracleTypes, e \in OracleExprs :
          /\ otype = t
          /\ source = FullText(e)
          /\ oexpr = Place(e, 0)
    /\ overdict = "none"
    /\ root = oexpr
    /\ stack = <<>>
    /\ diagnostics = <<>>
    /\ walked = <<>>

Evaluate ==
    /\ overdict = "none"
    /\ overdict' = IF isSafeAttribute(otype, oexpr) THEN "safe" ELSE "unsafe"
    /\ UNCHANGED <<source, root, stack, diagnostics, walked, otype, oexpr>>

NextOracle == Evaluate

SpecOracle == InitOracle /\ [][NextOracle]_vars

(***************************************************************************)
(* C5: isSafe(type, expr) is the verdict of the first rule of the lattice  *)
(* 1-8 that matches.  FirstRule and LatticeVerdict state the lattice.      *)
(***************************************************************************)
FirstRule(type, expr) ==
    CASE ~type.defined -> 1
      [] type.defined /\ "Any" \in type.flags -> 2
      [] OTHER ->
           LET alias == IF type.aliasSymbol = <<>> THEN <<"", "">>
                        ELSE <<type.aliasSymbol[1].parent,
                               type.aliasSymbol[1].escapedName>>
           IN  CASE alias = <<"JSX", "Element">> /\ expr.kind = "CallExpression" -> 3
                 [] alias = <<"Html", "Children">> -> 4
                 [] OTHER ->
                      IF "Union" \in type.flags THEN 5
                      ELSE IF type.isArray \/ type.symbol = "Promise" THEN 6
                      ELSE IF type.flags \cap {"String", "Object"} = {} THEN 7
                      ELSE 8

LatticeVerdict(type, expr) ==
    LET rule == FirstRule(type, expr)
    IN  CASE rule \in {1, 3, 4, 7} -> TRUE
          [] rule = 2 -> FALSE
          [] rule = 5 ->
               {i \in DOMAIN type.types : ~LatticeVerdict(type.types[i], expr)} = {}
          [] rule = 6 ->
               IF Len(type.resolvedTypeArguments) = 0 THEN TRUE
               ELSE LatticeVerdict(Head(type.resolvedTypeArguments), expr)
          [] rule = 8 ->
               \/ startsWith(getText(expr), S_safe)
               \/ ESCAPE_HTML_REGEX(getText(expr))

Range(seq) == {seq[i] : i \in DOMAIN seq}
Elements == {n \in Nodes : n.kind = "JsxElement"}
JsxNodes == {n \in Nodes : n.kind \in {"JsxElement", "JsxFragment"}}
TagText(e) == SubSeq(source, e.tagName.start + 1, e.tagName.end)
\* the attributes of an element that are the bare marker `safe`
Markers(e) ==
    {a \in Range(e.attributes) : SubSeq(source, a.start + 1, a.end) = S_safe}
Marker(e) == CHOOSE a \in Markers(e) : \A b \in Markers(e) : a.start <= b.start
AssertedSafe(e) == TagText(e) # S_script /\ Markers(e) # {}
\* no children, or one child that is plain text
Trivial(e) ==
    Len(e.children) = 0 \/ (Len(e.children) = 1 /\ e.children[1].kind = "JsxText")
\* the diagnostic d is anchored at the span of the node
Anchored(d, node) ==
    d.file = FileName /\ d.start = node.start /\ d.length = node.end - node.start
\* the diagnostic d lies within the span of the node
Inside(d, node) ==
    d.file = FileName /\ d.start >= node.start /\ d.start + d.length <= node.end
IsPrefix(before, after) ==
    Len(before) <= Len(after) /\ SubSeq(after, 1, Len(before)) = before
\* what a call appended to the sink
Appended(before, after) == SubSeq(after, Len(before) + 1, Len(after))
\* an expression the oracle finds unsafe
Unsafe(e) == ~LatticeVerdict(e.type, e)
\* the expression containers among the children of a node, with an expression
Rendered(e) ==
    {c.expression[1] :
        c \in {k \in Range(e.children) :
                  k.kind = "JsxExpression" /\ k.expression # <<>>}}

\* the node loopSourceNodes is through with the children of
Focus == IF stack # <<>> /\ Exhausted THEN {Top.node} ELSE {}

\* C1: after a walk no diagnostic lies within an element whose tag is script
C1_ScriptIsSilent ==
    Done => \A e \in Elements :
               TagText(e) = S_script =>
                   \A i \in DOMAIN diagnostics : ~Inside(diagnostics[i], e)

\* C2: isComponent is true iff the tag starts with an uppercase letter; an
\* unsafe identifier directly inside an element that was diagnosed has one
\* diagnostic at its span per diagnosis of the element, ComponentXss when the
\* tag starts with an uppercase letter and Xss otherwise
C2_KindByFirstLetter ==
    Done => \A e \in Elements :
        (TagText(e) # S_script /\ Markers(e) = {} /\ Span(e) \in Range(walked))
        => \A x \in Rendered(e) :
              (x.kind = "Identifier" /\ Unsafe(x)) =>
                 LET component == IsUpper(TagText(e)[1])
                     kind == IF component THEN "ComponentXss" ELSE "Xss"
                     once == diagnoseJsxElement(e, <<>>)
                 IN  /\ isComponentTag(e) <=> component
                     /\ \E i \in DOMAIN diagnostics : Anchored(diagnostics[i], x)
                     /\ \A i \in DOMAIN diagnostics :
                           Anchored(diagnostics[i], x)
                              => diagnostics[i].code = kind
                     /\ Cardinality({i \in DOMAIN once : Anchored(once[i], x)}) = 1

\* C3: diagnosing an element with the marker and no child, or one text child,
\* appends one diagnostic: an UnusedSafe warning at the span of the marker
C3_UnusedSafeOnly ==
    \A e \in Focus :
        (e.kind = "JsxElement" /\ AssertedSafe(e) /\ Trivial(e)) =>
            diagnoseJsxElement(e, diagnostics) =
                Append(diagnostics,
                       [category |-> "Warning", code |-> "UnusedSafe",
                        file |-> FileName, start |-> Marker(e).start,
                        length |-> Marker(e).end - Marker(e).start])

C3_Witness ==
    /\ Done
    /\ \E e \in Elements :
          /\ AssertedSafe(e) /\ Len(e.children) = 0
          /\ Marker(e).start > Marker(e).pos + 1
          /\ Len(diagnostics) = 1
          /\ diagnostics[1].code = "UnusedSafe"
          /\ Anchored(diagnostics[1], Marker(e))

\* C4: diagnosing an asserted-safe element with more than one child, or one
\* child that is no text, appends at least as many DoubleEscape errors as it
\* has Element children, every one at the marker, and no Xss or ComponentXss
C4_DoubleEscapePerElement ==
    \A e \in Focus :
        (e.kind = "JsxElement" /\ AssertedSafe(e) /\ ~Trivial(e)) =>
            LET after == diagnoseJsxElement(e, diagnostics)
                new == Appended(diagnostics, after)
                atMarker == {i \in DOMAIN new :
                                new[i].code = "DoubleEscape"
                                    /\ Anchored(new[i], Marker(e))}
                nested == {i \in DOMAIN e.children :
                              e.children[i].kind = "JsxElement"}
            IN  /\ IsPrefix(diagnostics, after)
                /\ Cardinality(atMarker) >= Cardinality(nested)
                /\ \A i \in DOMAIN new :
                      /\ new[i].code \notin {"Xss", "ComponentXss"}
                      /\ new[i].code = "DoubleEscape" => Anchored(new[i], Marker(e))

C4_Witness ==
    /\ Done
    /\ \E e \in Elements :
          /\ AssertedSafe(e)
          /\ Len(e.children) = 2
          /\ \A i \in DOMAIN e.children : e.children[i].kind = "JsxElement"
          /\ Len(diagnostics) = 2
          /\ \A i \in DOMAIN diagnostics :
                diagnostics[i].code = "DoubleEscape"
                    /\ Anchored(diagnostics[i], Marker(e))

OperatorWritten(b) == SubSeq(source, b.left.end + 2, b.right.start - 1)
BooleanProducing ==
    {<<"=","=","=">>, <<"=","=">>, <<"!","=","=">>, <<"!","=">>, <<">">>,
     <<">","=">>, <<"<","=">>, <<"<">>,
     <<"i","n","s","t","a","n","c","e","o","f">>, <<"i","n">>}

C8_NoFindingTwice ==
    Done => \A i, j \in DOMAIN diagnostics :
               (i < j /\ diagnostics[i].code \in {"Xss", "ComponentXss"})
                   => ~(/\ diagnostics[i].code = diagnostics[j].code
                        /\ diagnostics[i].file = diagnostics[j].file
                        /\ diagnostics[i].start = diagnostics[j].start
                        /\ diagnostics[i].length = diagnostics[j].length)

\* the asserted-safe elements whose children are looked at one by one
PerChild == {e \in Elements : AssertedSafe(e) /\ ~Trivial(e)}

\* a step appends an UnusedSafe warning of the per-child rule only when no
\* earlier diagnostic of the sink has its file and start offset
C9_Step ==
    \A i \in DOMAIN diagnostics' :
        (i > Len(diagnostics) /\ diagnostics'[i].code = "UnusedSafe"
            /\ \E e \in PerChild : Anchored(diagnostics'[i], Marker(e)))
        => ~\E j \in 1..(i - 1) :
               /\ diagnostics'[j].file = diagnostics'[i].file
               /\ diagnostics'[j].start = diagnostics'[i].start

\* C9: an UnusedSafe warning of the per-child rule is appended only when no
\* earlier diagnostic of the sink has the file and the start offset of the
\* marker, the place the warning is anchored at; so one diagnosis appends at
\* most one, and none after a DoubleEscape at that marker
C9_UnusedSafeOnce == [][C9_Step]_vars

NodeOfSpan(span) == CHOOSE n \in JsxNodes : Span(n) = span
\* the sink after diagnosing the nodes of the spans from the i-th on, in order
Replay(spans, i, diags) ==
    IF i > Len(spans) THEN diags
    ELSE Replay(spans, i + 1, diagnoseJsxElement(NodeOfSpan(spans[i]), diags))
Within(inner, outer) == outer.start <= inner.start /\ inner.end <= outer.end
Times(span) == Cardinality({i \in DOMAIN walked : walked[i] = span})

\* C10 as claimed: after the walk every Element or Fragment, the root
\* included, was handed to diagnoseJsxElement once by the walker
C10_EveryJsxNodeOnce ==
    Done => \A n \in JsxNodes : Times(Span(n)) = 1

\* C10 as amended: the walker hands every Element or Fragment below the root
\* to diagnoseJsxElement once and never the root, an inner node before the
\* nodes around it, and the sink is what these diagnoses appended, in order
C10_DescendantsOnceBottomUp ==
    /\ \A i \in DOMAIN walked :
          \E n \in JsxNodes \ {root} : Span(n) = walked[i]
    /\ \A n \in JsxNodes : Times(Span(n)) <= 1
    /\ \A i, j \in DOMAIN walked :
          (i < j) => ~(walked[j] # walked[i] /\ Within(walked[j], walked[i]))
    /\ Done => \A n \in JsxNodes \ {root} : Times(Span(n)) = 1
    /\ diagnostics = Replay(walked, 1, <<>>)

\* a walk handed an element: its inner element was diagnosed, it was not
C10_Witness ==
    /\ Done
    /\ root.kind = "JsxElement"
    /\ Len(walked) = 2
    /\ Span(root) \notin Range(walked)
    /\ Len(diagnostics) > 0

====
